---- MODULE Spec2Model ----
(***************************************************************************)
(* Model of src/media.py: the Telegram bot that downloads a video with an  *)
(* external yt-dlp process and uploads it to Google Drive.                 *)
(*                                                                         *)
(* Every coroutine is cut at its await points: one action runs the code    *)
(* from the resumption of one await to the suspension at the next one, as  *)
(* the asyncio event loop does.  pc[t] names the await a task is suspended *)
(* at; cancel.pc does the same for the cancel callback.  The retrieval     *)
(* process, the Drive service and the Telegram message are the environment.*)
(***************************************************************************)
EXTENDS Integers, Sequences, FiniteSets, TLC

\* ------------------------------------------------------------------ bounds
MaxFrames  == 2      \* progress frames the retrieval process writes at most
MaxPipe    == 3      \* symbols the process may have written and not yet read
MaxChunks  == 1      \* intermediate (non-final) statuses next_chunk returns
MaxCancels == 2      \* clicks on the cancel button
MaxQualityClicks == 2 \* clicks on a quality button waiting to be handled
MaxStderr  == 2      \* units the stderr pipe and its reader's buffer hold
MaxTotal   == 100    \* greatest file size the upload arithmetic is applied to
MaxStderrLen == 1001 \* greatest length of a stderr text
MaxSize    == 3      \* greatest size of an uploaded file, in bytes
MaxStatuses == 2     \* statuses next_chunk returns in one detailed upload

\* ------------------------------------------------------- program constants
READ_LIMIT == 1024   \* process.stdout.read(1024)
SIGTERM_RC == -15    \* returncode of a process ended by terminate()
REASON_LIMIT == 1000 \* stderr_text[:1000]

TaskIds  == {"t1", "t2"}
Names    == {"a", "b"}

\* The percentage tokens a frame may carry: every one is accepted by [0-9.]+
PctTokens == { <<"5">>, <<"4", "2", ".", "0">>, <<"1", ".", "2", ".", "3">>, <<".">> }

VARIABLES
  commands,          \* /startmedia commands the operator has yet to send
  task_data,         \* dict message_id -> task info        (line 49)
  progress_messages, \* dict task_id -> message             (line 50)
  active_processes,  \* dict task_id -> (process, filename) (line 48)
  files,             \* names of the files that exist on disk
  pc,                \* await point each download_and_upload_task is at
  file_name,         \* file_name argument of each task
  buffer,            \* local buffer of the download loop
  last_update_pct,   \* local last_update_pct of the download loop
  uploaded_file,     \* local uploaded_file (line 257)
  chunks,            \* intermediate statuses the upload has received
  exc,               \* exception caught at line 275, if any
  outcome,           \* how the task ended
  proc,              \* retrieval process: "none", "running", "exited"
  returncode,        \* process.returncode
  stdout,            \* symbols written to the stdout pipe and not yet read
  wrote,             \* symbols the process has written so far
  msg,               \* what the task's single Telegram message shows
  edit_ok,           \* whether the edit a task is suspended in was delivered
  editFailed,        \* some edit of the task's message has failed
  clicks,            \* clicks on the cancel button so far
  updates,           \* cancel callbacks queued: the task id of each
  cancel,            \* the cancel_any_download callback being handled
  cancelAt,          \* pc of the task when a cancel first popped its entries
  percent_shown,     \* percent of the progress bar the message shows, or -1
  status,            \* status.resumable_progress of the status in hand
  last_uploaded_bytes, \* local last_uploaded_bytes of the upload loop
  media_size,        \* media.size(): the size of the file to upload
  bytes_monotone,    \* no status so far reported less than the one before
  quality_clicks,    \* clicks on a quality button not yet handled
  started,           \* download_and_upload_task coroutines created per task
  stderr,            \* units written to the stderr pipe and not yet read
  err_left,          \* units the process has yet to write to stderr
  arg,               \* input of the function under check
  result             \* its result

vars == << commands, task_data, progress_messages, active_processes, files,
           pc, file_name, buffer, last_update_pct, uploaded_file, chunks, exc,
           outcome, proc, returncode, stdout, wrote, msg, edit_ok, editFailed, clicks,
           updates, cancel, cancelAt, percent_shown, status, last_uploaded_bytes,
           media_size, bytes_monotone, quality_clicks, started, stderr,
           err_left, arg, result >>

\* what only the operations with their numbers, the repeated quality clicks
\* and the function applications change
detail == << status, last_uploaded_bytes, media_size, bytes_monotone,
             quality_clicks, arg, result >>

errVars == << stderr, err_left >>

\* ------------------------------------------------------------ dictionaries
\* dict.pop(key, None): the dictionary without the key
Pop(d, k) == [x \in DOMAIN d \ {k} |-> d[x]]

\* d[k] = v
Put(d, k, v) == [x \in DOMAIN d \cup {k} |-> IF x = k THEN v ELSE d[x]]

EmptyDict == [x \in {} |-> "none"]

\* message_id of the message a task's prompt and progress live in
MessageId(t) == t

\* output_filename = f"{file_name}.mp4"
OutputFilename(t) == << file_name[t], ".mp4" >>

\* ------------------------------------------------------------------- text
\* The process's output is a sequence of symbols: a carriage return, the head
\* of a progress frame ("[download] <tok>% of <size> at <rate> ETA ") and its
\* tail (the ETA digits).  A read may cut the output between any two symbols.
CR == [k |-> "cr",   tok |-> <<>>]
FrameHead(tok) == [k |-> "head", tok |-> tok]
FrameTail == [k |-> "tail", tok |-> <<>>]

\* '\r' in buffer
HasCR(s) == \E i \in 1..Len(s) : s[i].k = "cr"

\* buffer.split('\r')[-1]
LastSegment(s) ==
  IF HasCR(s)
  THEN LET last == CHOOSE i \in 1..Len(s) :
                     s[i].k = "cr" /\ \A j \in (i+1)..Len(s) : s[j].k # "cr"
       IN  SubSeq(s, last + 1, Len(s))
  ELSE s

\* positions where the progress pattern of re.search matches
MatchPositions(line) ==
  { i \in 1..(Len(line) - 1) : line[i].k = "head" /\ line[i+1].k = "tail" }

\* re.search(...) is not None
Matches(line) == MatchPositions(line) # {}

\* match.group(1): re.search returns the leftmost match
MatchGroup1(line) ==
  LET i == CHOOSE i \in MatchPositions(line) :
             \A j \in MatchPositions(line) : i <= j
  IN  line[i].tok

IsDigit(c) == c \in {"0", "1", "2", "3", "4", "5", "6", "7", "8", "9"}

DigitValue(c) ==
  CASE c = "0" -> 0 [] c = "1" -> 1 [] c = "2" -> 2 [] c = "3" -> 3
    [] c = "4" -> 4 [] c = "5" -> 5 [] c = "6" -> 6 [] c = "7" -> 7
    [] c = "8" -> 8 [] c = "9" -> 9

\* float(tok) does not raise ValueError: digits with at most one point and at
\* least one digit
FloatParses(tok) ==
  /\ Cardinality({ i \in 1..Len(tok) : tok[i] = "." }) <= 1
  /\ \E i \in 1..Len(tok) : IsDigit(tok[i])

RECURSIVE DecimalValue(_)
DecimalValue(ds) ==
  IF ds = <<>> THEN 0
  ELSE 10 * DecimalValue(SubSeq(ds, 1, Len(ds) - 1)) + DigitValue(ds[Len(ds)])

\* int(float(tok)) for a token float() accepts: the digits before the point
IntOfFloat(tok) ==
  LET points == { i \in 1..Len(tok) : tok[i] = "." }
      stop   == IF points = {} THEN Len(tok) ELSE (CHOOSE i \in points : TRUE) - 1
  IN  DecimalValue(SubSeq(tok, 1, stop))

\* the first n symbols of s, and the rest
Take(s, n) == SubSeq(s, 1, IF Len(s) < n THEN Len(s) ELSE n)
Drop(s, n) == SubSeq(s, (IF Len(s) < n THEN Len(s) ELSE n) + 1, Len(s))

\* ----------------------------------------------------------------- floats
\* Python's float is the IEEE 754 double: 53 significant bits, every operation
\* rounded to the nearest double, ties to the even one.  A positive double is
\* kept as its 53 bits (most significant first, the first one 1) and the
\* exponent e of its last bit: its value is the integer the bits spell times
\* 2^e.
MANT_BITS == 53

\* 2^i mod b
RECURSIVE Pow2Mod(_, _)
Pow2Mod(i, b) ==
  IF i = 0 THEN 1 % b
  ELSE IF i % 2 = 1 THEN (2 * Pow2Mod(i - 1, b)) % b
  ELSE LET h == Pow2Mod(i \div 2, b) IN (h * h) % b

\* the first n binary digits of r/b after the point, for 0 <= r < b, and the
\* remainder of the division: digit i is 1 when twice the remainder before
\* it reaches b
BinaryDigits(r, b, n) ==
  [bits |-> [i \in 1..n |->
               IF 2 * ((r * Pow2Mod(i - 1, b)) % b) >= b THEN 1 ELSE 0],
   rem  |-> (r * Pow2Mod(n, b)) % b]

\* the w lowest bits of the natural number n
LowBits(n, w) == [i \in 1..w |-> (n \div 2^(w - i)) % 2]

\* bits without its leading zeros
Significant(bits) ==
  LET ones == { i \in 1..Len(bits) : bits[i] = 1 }
  IN  IF ones = {} THEN <<>>
      ELSE SubSeq(bits, CHOOSE i \in ones : \A j \in ones : i <= j, Len(bits))

\* the bits of the natural number n, none for 0
BitsOf(n) == Significant(LowBits(n, 31))

\* the natural number the bits spell
RECURSIVE ValueOf(_)
ValueOf(bits) ==
  IF Len(bits) = 0 THEN 0
  ELSE IF Len(bits) = 1 THEN bits[1]
  ELSE LET h == Len(bits) \div 2
       IN  ValueOf(SubSeq(bits, 1, h)) * 2^(Len(bits) - h)
             + ValueOf(SubSeq(bits, h + 1, Len(bits)))

\* bits + 1
Increment(bits) ==
  LET zeros == { i \in 1..Len(bits) : bits[i] = 0 }
  IN  IF zeros = {} THEN <<1>> \o [i \in 1..Len(bits) |-> 0]
      ELSE LET j == CHOOSE j \in zeros : \A k \in zeros : k <= j
           IN  [i \in 1..Len(bits) |->
                  IF i < j THEN bits[i] ELSE IF i = j THEN 1 ELSE 0]

\* bits * c, for 53 bits and c < 2^12: multiplied in three limbs of 18 bits,
\* the carries going up
MulCarry(bits, c) ==
  LET n  == Len(bits)
      p0 == ValueOf(SubSeq(bits, n - 17, n)) * c
      p1 == ValueOf(SubSeq(bits, n - 35, n - 18)) * c + p0 \div 2^18
      p2 == ValueOf(SubSeq(bits, 1, n - 36)) * c + p1 \div 2^18
  IN  BitsOf(p2) \o LowBits(p1 % 2^18, 18) \o LowBits(p0 % 2^18, 18)

\* the double nearest to bits * 2^e when what was cut off after the last bit
\* compares as cut ("below", "half", "above") to half a unit of that bit
RoundToDouble(bits, e, cut) ==
  LET up == cut = "above" \/ (cut = "half" /\ bits[Len(bits)] = 1)
      r  == IF up THEN Increment(bits) ELSE bits
  IN  IF Len(r) > MANT_BITS
      THEN [m |-> SubSeq(r, 1, MANT_BITS), e |-> e + 1]
      ELSE [m |-> r, e |-> e]

\* how often a must be doubled to reach b, for 0 < a < b
RECURSIVE Doublings(_, _)
Doublings(a, b) == IF 2 * a >= b THEN 1 ELSE 1 + Doublings(2 * a, b)

\* a / b in floats, for integers 0 < a < b
FloatDiv(a, b) ==
  LET k    == Doublings(a, b)
      q    == BinaryDigits(a * 2^(k-1), b, MANT_BITS)
      cut  == IF 2 * q.rem > b THEN "above"
              ELSE IF 2 * q.rem = b THEN "half" ELSE "below"
  IN  RoundToDouble(q.bits, 0 - MANT_BITS - (k - 1), cut)

\* x * c in floats, for a double x and a small integer c
FloatMul(x, c) ==
  LET p    == MulCarry(x.m, c)
      more == Len(p) - MANT_BITS
      rest == SubSeq(p, MANT_BITS + 1, Len(p))
      cut  == IF more = 0 \/ rest[1] = 0 THEN "below"
              ELSE IF \A i \in 2..more : rest[i] = 0 THEN "half" ELSE "above"
  IN  RoundToDouble(SubSeq(p, 1, MANT_BITS), x.e + more, cut)

\* int(x) for a double 0 < x < 2^53: the bits before the point
IntOfDouble(x) ==
  IF x.e >= 0 THEN ValueOf(x.m) * 2^x.e
  ELSE IF MANT_BITS + x.e <= 0 THEN 0
  ELSE ValueOf(SubSeq(x.m, 1, MANT_BITS + x.e))

\* percentage = int(status.resumable_progress / media.size() * 100), line 162,
\* for 0 <= resumable_progress <= size and size > 0
UploadPercentage(resumable_progress, size) ==
  IF resumable_progress = 0 THEN 0
  ELSE IF resumable_progress = size THEN 100
  ELSE IntOfDouble(FloatMul(FloatDiv(resumable_progress, size), 100))

\* speed = bytes_since_last / elapsed_time if elapsed_time > 0 else 0, line
\* 161, kept as the fraction num/den
UploadSpeed(bytes_since_last, elapsed_time) ==
  IF elapsed_time > 0
  THEN [num |-> bytes_since_last, den |-> elapsed_time]
  ELSE [num |-> 0, den |-> 1]

\* ---------------------------------------------------------------- message
\* Every edit goes through the bot's one request connection, so the edits
\* reach the message in the order they are called: an edit acts on the
\* message in the step that calls it, and the caller then waits for the reply.

\* the edits that carry the cancel button (reply_markup=cancel_button)
WithCancelButton == {"starting", "dl_progress", "ul_progress"}

\* the await points of a task that are edits of its message, and their text
EditText(p) ==
  CASE p = "init_edit"        -> "starting"            \* line 194
    [] p = "progress_edit"    -> "dl_progress"         \* line 240
    [] p = "complete_edit"    -> "dl_complete"         \* line 256
    [] p = "dl_error_edit"    -> "dl_error"            \* line 273
    [] p = "except_edit"      -> "unexpected_error"    \* line 278
    [] p = "auth_fail_edit"   -> "auth_error"          \* line 133
    [] p = "ul_progress_edit" -> "ul_progress"         \* line 172
    [] p = "ul_error_edit"    -> "upload_error"        \* line 185
    [] p = "success_edit"     -> "success"             \* line 266
    [] p = "edit_cancelled"   -> "cancelled"           \* line 372
    [] p = "edit_done"        -> "already_done"        \* line 374
    [] p = "edit_none"        -> "no_active"           \* line 376

TaskEditPcs ==
  {"init_edit", "progress_edit", "complete_edit", "dl_error_edit", "except_edit",
   "auth_fail_edit", "ul_progress_edit", "ul_error_edit", "success_edit"}

\* msg.edit_text(text) is called, the text showing a progress bar at bar
\* percent (-1: no bar): the message shows it, or the edit fails and will
\* raise in the caller
EditBar(t, text, bar, ok) ==
  /\ msg' = [msg EXCEPT ![t] = IF ok THEN text ELSE @]
  /\ editFailed' = [editFailed EXCEPT ![t] = @ \/ ~ok]
  /\ percent_shown' = [percent_shown EXCEPT ![t] = IF ok THEN bar ELSE @]

\* an edit to a text without a progress bar
Edit(t, text, ok) == EditBar(t, text, -1, ok)

NoEdit == UNCHANGED << msg, editFailed, percent_shown >>

\* ------------------------------------------------------------------- Init
NoProcessInfo == [process |-> "none", filename |-> <<>>]

IdleCancel == [pc |-> "idle", task |-> "none",
               process_info |-> NoProcessInfo, msg_to_edit |-> FALSE]

InitShared ==
  /\ task_data = EmptyDict
  /\ progress_messages = EmptyDict
  /\ active_processes = EmptyDict
  /\ files = {}
  /\ pc = [t \in TaskIds |-> "none"]
  /\ file_name = [t \in TaskIds |-> "none"]
  /\ buffer = [t \in TaskIds |-> <<>>]
  /\ last_update_pct = [t \in TaskIds |-> -1]
  /\ uploaded_file = [t \in TaskIds |-> "unset"]
  /\ chunks = [t \in TaskIds |-> 0]
  /\ exc = [t \in TaskIds |-> "none"]
  /\ outcome = [t \in TaskIds |-> "none"]
  /\ proc = [t \in TaskIds |-> "none"]
  /\ returncode = [t \in TaskIds |-> 0]
  /\ stdout = [t \in TaskIds |-> <<>>]
  /\ wrote = [t \in TaskIds |-> 0]
  /\ msg = [t \in TaskIds |-> "none"]
  /\ edit_ok = [t \in TaskIds |-> TRUE]
  /\ editFailed = [t \in TaskIds |-> FALSE]
  /\ clicks = 0
  /\ updates = <<>>
  /\ cancel = IdleCancel
  /\ cancelAt = [t \in TaskIds |-> "never"]
  /\ percent_shown = [t \in TaskIds |-> -1]
  /\ status = [t \in TaskIds |-> 0]
  /\ last_uploaded_bytes = [t \in TaskIds |-> 0]
  /\ bytes_monotone = [t \in TaskIds |-> TRUE]
  /\ quality_clicks = [t \in TaskIds |-> 0]
  /\ started = [t \in TaskIds |-> 0]
  /\ stderr = [t \in TaskIds |-> 0]

\* no function is under check
NoFunction == arg = <<>> /\ result = <<>>

\* one /startmedia command; the process writes nothing to stderr
Init ==
  /\ InitShared
  /\ commands = {"t1"}
  /\ media_size = [t \in TaskIds |-> 1]
  /\ err_left = [t \in TaskIds |-> 0]
  /\ NoFunction

\* ------------------------------------------------------------ control flow
\* continue to the await named p; when p is an edit, the edit is called with
\* its progress bar at bar
GotoBar(t, p, bar) ==
  /\ pc' = [pc EXCEPT ![t] = p]
  /\ IF p \in TaskEditPcs
     THEN \E ok \in BOOLEAN : /\ EditBar(t, EditText(p), bar, ok)
                              /\ edit_ok' = [edit_ok EXCEPT ![t] = ok]
     ELSE NoEdit /\ edit_ok' = [edit_ok EXCEPT ![t] = TRUE]
  /\ UNCHANGED << outcome, progress_messages, files >>

\* the same; the download progress text shows pct, which line 232 has just
\* assigned to last_update_pct (lines 232-235)
Goto(t, p) ==
  GotoBar(t, p, IF p = "progress_edit" THEN last_update_pct'[t] ELSE -1)

\* the finally block without lines 281-283: the file is left on disk
FinallyKeepsFile(t, how) ==
  /\ progress_messages' = Pop(progress_messages, t)
  /\ UNCHANGED files
  /\ pc' = [pc EXCEPT ![t] = "done"]
  /\ outcome' = [outcome EXCEPT ![t] = how]
  /\ edit_ok' = [edit_ok EXCEPT ![t] = TRUE]
  /\ NoEdit

\* the finally block (lines 279-283), then the task is over
Finally(t, how) ==
  /\ progress_messages' = Pop(progress_messages, t)
  /\ files' = files \ {OutputFilename(t)}
  /\ pc' = [pc EXCEPT ![t] = "done"]
  /\ outcome' = [outcome EXCEPT ![t] = how]
  /\ edit_ok' = [edit_ok EXCEPT ![t] = TRUE]
  /\ NoEdit

\* except Exception as e (lines 275-278)
Except(t, e) ==
  /\ exc' = [exc EXCEPT ![t] = e]
  /\ IF t \in DOMAIN progress_messages
     THEN Goto(t, "except_edit")
     ELSE Finally(t, "Failed")

NoExcept == UNCHANGED exc

\* top of the download loop (lines 215-220)
DownloadLoop(t) ==
  IF t \notin DOMAIN active_processes
  THEN Goto(t, "wait")
  ELSE Goto(t, "read")

\* line 150 with the first 'not' left out: the test never fires once line 253
\* has popped the task's process
UploadCancelledWhileRegistered(t) ==
  /\ t \in DOMAIN active_processes
  /\ MessageId(t) \notin { progress_messages[k] : k \in DOMAIN progress_messages }

\* the cancellation test of the upload loop (line 150)
UploadCancelled(t) ==
  /\ t \notin DOMAIN active_processes
  /\ MessageId(t) \notin { progress_messages[k] : k \in DOMAIN progress_messages }

\* upload_with_progress returns None; line 259 then falls through to finally
UploadReturnsNone(t, how) ==
  /\ uploaded_file' = [uploaded_file EXCEPT ![t] = "None"]
  /\ Finally(t, how)

\* upload_with_progress returns the response; lines 259-266
UploadReturnsResponse(t) ==
  /\ uploaded_file' = [uploaded_file EXCEPT ![t] = "response"]
  /\ Goto(t, "success_edit")

\* except Exception as e of upload_with_progress (lines 181-187)
UploadExcept(t) ==
  IF t \in DOMAIN progress_messages
  THEN Goto(t, "ul_error_edit") /\ UNCHANGED uploaded_file
  ELSE UploadReturnsNone(t, "Failed")

\* top of the upload loop with response None (lines 149-154)
UploadLoop(t) ==
  IF UploadCancelled(t)
  THEN UploadReturnsNone(t, "Cancelled")
  ELSE Goto(t, "chunk") /\ UNCHANGED uploaded_file

\* ------------------------------------------------------------ the operator
\* startmedia_command: the prompt with the quality buttons is sent.  Names
\* matter only by being equal or different, so the first task's is fixed.
startmedia_command(t) ==
  /\ cancel.pc = "idle"
  /\ t \in commands
  /\ \E n \in Names :
       /\ (t = "t1" => n = "a")
       /\ task_data' = Put(task_data, MessageId(t), [task_id |-> t, filename |-> n])
  /\ commands' = commands \ {t}
  /\ msg' = [msg EXCEPT ![t] = "prompt"]
  /\ UNCHANGED << progress_messages, active_processes, files, pc, file_name,
                  buffer, last_update_pct, uploaded_file, chunks, exc, outcome,
                  proc, returncode, stdout, wrote, edit_ok, editFailed, clicks,
                  updates, cancel, cancelAt, percent_shown, started, detail,
                  errVars >>

\* quality_selection_handler reading the entry with task_data.get instead of
\* pop: the entry stays
quality_selection_handler_get(t) ==
  /\ cancel.pc = "idle"
  /\ MessageId(t) \in DOMAIN task_data
  /\ LET task_info == task_data[MessageId(t)] IN
       /\ progress_messages' = Put(progress_messages, task_info.task_id, MessageId(t))
       /\ file_name' = [file_name EXCEPT ![task_info.task_id] = task_info.filename]
       /\ pc' = [pc EXCEPT ![task_info.task_id] = "start"]
       /\ started' = [started EXCEPT ![task_info.task_id] = @ + 1]
  /\ UNCHANGED << commands, task_data, active_processes, files, buffer,
                  last_update_pct, uploaded_file, chunks, exc, outcome, proc,
                  returncode, stdout, wrote, msg, edit_ok, editFailed, clicks,
                  updates, cancel, cancelAt, percent_shown, detail, errVars >>

\* quality_selection_handler, a click on a quality button whose entry is in
\* task_data (lines 338-351): the task is registered and created
quality_selection_handler(t) ==
  /\ cancel.pc = "idle"
  /\ MessageId(t) \in DOMAIN task_data
  /\ LET task_info == task_data[MessageId(t)] IN
       /\ task_data' = Pop(task_data, MessageId(t))
       /\ progress_messages' = Put(progress_messages, task_info.task_id, MessageId(t))
       /\ file_name' = [file_name EXCEPT ![task_info.task_id] = task_info.filename]
       /\ pc' = [pc EXCEPT ![task_info.task_id] = "start"]
       /\ started' = [started EXCEPT ![task_info.task_id] = @ + 1]
  /\ UNCHANGED << commands, active_processes, files, buffer, last_update_pct,
                  uploaded_file, chunks, exc, outcome, proc, returncode, stdout,
                  wrote, msg, edit_ok, editFailed, clicks, updates, cancel,
                  cancelAt, percent_shown, detail, errVars >>

\* ------------------------------------------------- download_and_upload_task
procVars == << proc, returncode, wrote >>

\* what no step of a task changes
taskStatic == << commands, task_data, file_name, returncode, wrote, clicks,
                 updates, cancel, cancelAt, started, err_left, detail >>

\* the same and the stderr pipe, which only line 271 reads
taskEnv == << taskStatic, stderr >>

\* the created task runs for the first time: lines 190-194
T_Start(t) ==
  /\ pc[t] = "start"
  /\ Goto(t, "init_edit")
  /\ NoExcept
  /\ UNCHANGED << taskEnv, active_processes, buffer, last_update_pct,
                  uploaded_file, chunks, proc, stdout >>

\* line 194 resumes: the 'starting download' edit returned (lines 198-208)
T_InitEdit(t) ==
  /\ pc[t] = "init_edit"
  /\ IF edit_ok[t] THEN Goto(t, "spawn") /\ NoExcept
                   ELSE Except(t, "EditError")
  /\ UNCHANGED << taskEnv, active_processes, buffer, last_update_pct,
                  uploaded_file, chunks, proc, stdout >>

\* line 208 resumes: the process exists and is registered (lines 208-220)
T_Spawn(t) ==
  /\ pc[t] = "spawn"
  /\ \E ok \in BOOLEAN :
       IF ok
       THEN /\ proc' = [proc EXCEPT ![t] = "running"]
            /\ active_processes' =
                 Put(active_processes, t,
                     [process |-> t, filename |-> OutputFilename(t)])
            /\ buffer' = [buffer EXCEPT ![t] = <<>>]
            /\ last_update_pct' = [last_update_pct EXCEPT ![t] = -1]
            /\ Goto(t, "read")
            /\ NoExcept
       ELSE /\ Except(t, "SpawnError")
            /\ UNCHANGED << proc, active_processes, buffer, last_update_pct >>
  /\ UNCHANGED << taskEnv, uploaded_file, chunks, stdout >>

\* a frame's whole percent that replaces the last one without updating the
\* message twice
ShouldUpdateAgain(pct, last) == pct >= last

\* line 231: the message is updated for a whole percent above the last one
ShouldUpdate(pct, last) == pct > last

\* line 220 resumes with a chunk: lines 221-240, or 245 and the loop test
T_Read(t) ==
  /\ pc[t] = "read"
  /\ stdout[t] # <<>> \/ proc[t] = "exited"
  /\ LET chunk == Take(stdout[t], READ_LIMIT)
         buf   == buffer[t] \o chunk
         line  == LastSegment(buf)
     IN
       /\ stdout' = [stdout EXCEPT ![t] = Drop(@, READ_LIMIT)]
       /\ IF chunk = <<>>
          THEN /\ Goto(t, "wait")
               /\ NoExcept
               /\ UNCHANGED << buffer, last_update_pct >>
          ELSE IF HasCR(buf) /\ Matches(line)
          THEN IF ~FloatParses(MatchGroup1(line))
               THEN /\ Except(t, "ValueError")
                    /\ buffer' = [buffer EXCEPT ![t] = buf]
                    /\ UNCHANGED last_update_pct
               ELSE IF ShouldUpdate(IntOfFloat(MatchGroup1(line)), last_update_pct[t])
               THEN /\ last_update_pct' =
                         [last_update_pct EXCEPT ![t] = IntOfFloat(MatchGroup1(line))]
                    /\ buffer' = [buffer EXCEPT ![t] = buf]
                    /\ Goto(t, "progress_edit")
                    /\ NoExcept
               ELSE /\ buffer' = [buffer EXCEPT ![t] = line]
                    /\ DownloadLoop(t)
                    /\ NoExcept
                    /\ UNCHANGED last_update_pct
          ELSE /\ buffer' = [buffer EXCEPT ![t] = line]
               /\ DownloadLoop(t)
               /\ NoExcept
               /\ UNCHANGED last_update_pct
  /\ UNCHANGED << taskEnv, active_processes, uploaded_file, chunks, proc >>

\* line 240 resumes: the download progress edit returned, its failure is
\* swallowed (lines 243-245), then the loop test
T_ProgressEdit(t) ==
  /\ pc[t] = "progress_edit"
  /\ buffer' = [buffer EXCEPT ![t] = LastSegment(@)]
  /\ DownloadLoop(t)
  /\ NoExcept
  /\ UNCHANGED << taskEnv, active_processes, last_update_pct, uploaded_file,
                  chunks, proc, stdout >>

\* line 247 resumes: process.wait() is over (lines 249-256 or 271)
T_Wait(t) ==
  /\ pc[t] = "wait"
  /\ proc[t] = "exited"
  /\ IF t \notin DOMAIN active_processes
     THEN Finally(t, "Cancelled") /\ UNCHANGED active_processes
     ELSE /\ active_processes' = Pop(active_processes, t)
          /\ IF returncode[t] = 0 /\ OutputFilename(t) \in files
             THEN Goto(t, "complete_edit")
             ELSE Goto(t, "stderr_read")
  /\ NoExcept
  /\ UNCHANGED << taskEnv, buffer, last_update_pct, uploaded_file, chunks,
                  proc, stdout >>

\* line 271 resumes: stderr was read to its end (lines 272-273)
T_StderrRead(t) ==
  /\ pc[t] = "stderr_read"
  /\ stderr' = [stderr EXCEPT ![t] = 0]
  /\ IF t \in DOMAIN progress_messages
     THEN Goto(t, "dl_error_edit")
     ELSE Finally(t, "Failed")
  /\ NoExcept
  /\ UNCHANGED << taskStatic, active_processes, buffer, last_update_pct,
                  uploaded_file, chunks, proc, stdout >>

\* line 273 resumes: the download error edit returned
T_DlErrorEdit(t) ==
  /\ pc[t] = "dl_error_edit"
  /\ IF edit_ok[t] THEN Finally(t, "Failed") /\ NoExcept
                   ELSE Except(t, "EditError")
  /\ UNCHANGED << taskEnv, active_processes, buffer, last_update_pct,
                  uploaded_file, chunks, proc, stdout >>

\* line 256 resumes: the 'download complete' edit returned, then
\* upload_with_progress is called and suspends in authenticate_drive (line 131)
T_CompleteEdit(t) ==
  /\ pc[t] = "complete_edit"
  /\ IF edit_ok[t] THEN /\ Goto(t, "auth")
                        /\ uploaded_file' = [uploaded_file EXCEPT ![t] = "pending"]
                        /\ NoExcept
                   ELSE /\ Except(t, "EditError")
                        /\ UNCHANGED uploaded_file
  /\ UNCHANGED << taskEnv, active_processes, buffer, last_update_pct, chunks,
                  proc, stdout >>

\* line 131 resumes: authenticate_drive returned or raised (lines 132-154)
T_Auth(t) ==
  /\ pc[t] = "auth"
  /\ \E r \in {"service", "None", "raise"} :
       CASE r = "service" ->
              IF OutputFilename(t) \in files
              THEN UploadLoop(t)
              ELSE UploadExcept(t)       \* MediaFileUpload: no such file
         [] r = "None"    -> Goto(t, "auth_fail_edit") /\ UNCHANGED uploaded_file
         [] r = "raise"   -> UploadExcept(t)
  /\ NoExcept
  /\ UNCHANGED << taskEnv, active_processes, buffer, last_update_pct, chunks,
                  proc, stdout >>

\* line 133 resumes: the authentication failure edit returned (line 134), or
\* raised into the except of line 181
T_AuthFailEdit(t) ==
  /\ pc[t] = "auth_fail_edit"
  /\ IF edit_ok[t] THEN UploadReturnsNone(t, "Failed") ELSE UploadExcept(t)
  /\ NoExcept
  /\ UNCHANGED << taskEnv, active_processes, buffer, last_update_pct, chunks,
                  proc, stdout >>

\* line 154 resumes: next_chunk returned a status, the response, or raised
T_Chunk(t) ==
  /\ pc[t] = "chunk"
  /\ \E r \in {"status", "response", "raise"} :
       CASE r = "status"   -> /\ chunks[t] < MaxChunks
                              /\ chunks' = [chunks EXCEPT ![t] = @ + 1]
                              /\ Goto(t, "ul_progress_edit")
                              /\ UNCHANGED uploaded_file
         [] r = "response" -> UploadReturnsResponse(t) /\ UNCHANGED chunks
         [] r = "raise"    -> UploadExcept(t) /\ UNCHANGED chunks
  /\ NoExcept
  /\ UNCHANGED << taskEnv, active_processes, buffer, last_update_pct, proc,
                  stdout >>

\* line 172 resumes: the upload progress edit returned, its failure is
\* swallowed (lines 173-177), then the loop test
T_UlProgressEdit(t) ==
  /\ pc[t] = "ul_progress_edit"
  /\ UploadLoop(t)
  /\ NoExcept
  /\ UNCHANGED << taskEnv, active_processes, buffer, last_update_pct, chunks,
                  proc, stdout >>

\* line 185 resumes: the upload error edit returned, its failure is swallowed
T_UlErrorEdit(t) ==
  /\ pc[t] = "ul_error_edit"
  /\ UploadReturnsNone(t, "Failed")
  /\ NoExcept
  /\ UNCHANGED << taskEnv, active_processes, buffer, last_update_pct, chunks,
                  proc, stdout >>

\* line 266 resumes: the success edit with the links returned
T_SuccessEdit(t) ==
  /\ pc[t] = "success_edit"
  /\ IF edit_ok[t] THEN Finally(t, "Completed") /\ NoExcept
                   ELSE Except(t, "EditError")
  /\ UNCHANGED << taskEnv, active_processes, buffer, last_update_pct,
                  uploaded_file, chunks, proc, stdout >>

\* line 278 resumes: the 'unexpected error' edit returned or raised; finally
\* runs either way
T_ExceptEdit(t) ==
  /\ pc[t] = "except_edit"
  /\ Finally(t, "Failed")
  /\ NoExcept
  /\ UNCHANGED << taskEnv, active_processes, buffer, last_update_pct,
                  uploaded_file, chunks, proc, stdout >>

\* ---------------------------------------------------- the retrieval process
taskVars == << commands, task_data, progress_messages, active_processes, pc,
               file_name, buffer, last_update_pct, uploaded_file, chunks, exc,
               outcome, msg, edit_ok, editFailed, clicks, updates, cancel,
               cancelAt, percent_shown, started, detail >>

\* the symbol the process writes next: frames are CR, head, tail
NextSymbol(n, tok) ==
  CASE n % 3 = 0 -> CR
    [] n % 3 = 1 -> FrameHead(tok)
    [] n % 3 = 2 -> FrameTail

\* the process writes one more symbol of its progress output
ProcWrite(t) ==
  /\ proc[t] = "running"
  /\ wrote[t] < 3 * MaxFrames
  /\ Len(stdout[t]) < MaxPipe
  /\ \E tok \in PctTokens :
       /\ (wrote[t] % 3 # 1 => tok = <<"5">>)
       /\ stdout' = [stdout EXCEPT ![t] = Append(@, NextSymbol(wrote[t], tok))]
  /\ wrote' = [wrote EXCEPT ![t] = @ + 1]
  /\ UNCHANGED << taskVars, errVars, files, proc, returncode >>

\* the process writes its output file (-o output_filename)
ProcCreateFile(t) ==
  /\ proc[t] = "running"
  /\ OutputFilename(t) \notin files
  /\ files' = files \cup {OutputFilename(t)}
  /\ UNCHANGED << taskVars, errVars, procVars, stdout >>

\* the process exits by itself, once it has written all it had to say
ProcExit(t) ==
  /\ proc[t] = "running"
  /\ err_left[t] = 0
  /\ proc' = [proc EXCEPT ![t] = "exited"]
  /\ \E rc \in {0, 1} : returncode' = [returncode EXCEPT ![t] = rc]
  /\ UNCHANGED << taskVars, errVars, files, stdout, wrote >>

\* ------------------------------------------------------ cancel_any_download
\* The Application of line 385 is built without concurrent_updates and the
\* handlers of lines 386-388 block: one update is handled at a time.  updates
\* is the queue of cancel callbacks not yet handled and cancel the one being
\* handled.  A callback suspended in query.answer (line 355) has changed
\* nothing yet, so it is still counted as queued.
cancelEnv == << commands, task_data, pc, file_name, buffer, last_update_pct,
                uploaded_file, chunks, exc, outcome, stdout, wrote, edit_ok,
                started, detail, errVars >>

\* the operator clicks the cancel button the message shows
CancelClick(t) ==
  /\ clicks < MaxCancels
  /\ msg[t] \in WithCancelButton
  /\ clicks' = clicks + 1
  /\ updates' = Append(updates, t)
  /\ UNCHANGED << commands, task_data, progress_messages, active_processes,
                  files, pc, file_name, buffer, last_update_pct, uploaded_file,
                  chunks, exc, outcome, proc, returncode, stdout, wrote, msg,
                  edit_ok, editFailed, cancel, cancelAt, percent_shown,
                  started, detail, errVars >>

\* the callback calls the edit named p (line 372, 374 or 376) and waits
Reply(t, p) ==
  /\ cancel' = [pc |-> p, task |-> t,
                process_info |-> NoProcessInfo, msg_to_edit |-> TRUE]
  /\ \E ok \in BOOLEAN : Edit(t, EditText(p), ok)

\* lines 369-372 once the process is gone: the file, then the edit if any
AfterTerminate(t, info, m) ==
  /\ files' = files \ {info.filename}
  /\ IF m THEN Reply(t, "edit_cancelled")
          ELSE cancel' = IdleCancel /\ NoEdit

\* line 355 resumes: both entries are popped, the process is terminated
\* (lines 356-365, or through 372 when psutil finds no process)
H_Pop ==
  /\ cancel.pc = "idle"
  /\ updates # <<>>
  /\ LET t    == Head(updates)
         has  == t \in DOMAIN active_processes
         info == IF has THEN active_processes[t] ELSE NoProcessInfo
         m    == t \in DOMAIN progress_messages
     IN
       /\ updates' = Tail(updates)
       /\ active_processes' = Pop(active_processes, t)
       /\ progress_messages' = Pop(progress_messages, t)
       /\ cancelAt' = [cancelAt EXCEPT ![t] = IF @ = "never" THEN pc[t] ELSE @]
       /\ IF has
          THEN IF proc[info.process] = "running"
               THEN /\ proc' = [proc EXCEPT ![info.process] = "exited"]
                    /\ returncode' = [returncode EXCEPT ![info.process] = SIGTERM_RC]
                    /\ cancel' = [pc |-> "wait", task |-> t,
                                  process_info |-> info, msg_to_edit |-> m]
                    /\ NoEdit
                    /\ UNCHANGED files
               ELSE /\ AfterTerminate(t, info, m)
                    /\ UNCHANGED << proc, returncode >>
          ELSE /\ Reply(t, IF m THEN "edit_done" ELSE "edit_none")
               /\ UNCHANGED << proc, returncode, files >>
  /\ UNCHANGED << cancelEnv, clicks >>

\* line 365 resumes: the terminated process has exited (lines 366-372)
H_Wait ==
  /\ cancel.pc = "wait"
  /\ proc[cancel.process_info.process] = "exited"
  /\ AfterTerminate(cancel.task, cancel.process_info, cancel.msg_to_edit)
  /\ UNCHANGED << cancelEnv, progress_messages, active_processes, proc,
                  returncode, cancelAt, updates, clicks >>

\* line 372, 374 or 376 resumes: the callback is over
H_Edit ==
  /\ cancel.pc \in {"edit_cancelled", "edit_done", "edit_none"}
  /\ cancel' = IdleCancel
  /\ NoEdit
  /\ UNCHANGED << cancelEnv, progress_messages, active_processes, files, proc,
                  returncode, cancelAt, updates, clicks >>

\* ------------------------------------------------------------------- Next
Next ==
  \/ \E t \in TaskIds : startmedia_command(t)
  \/ \E t \in TaskIds : quality_selection_handler(t)
  \/ \E t \in TaskIds : T_Start(t)
  \/ \E t \in TaskIds : T_InitEdit(t)
  \/ \E t \in TaskIds : T_Spawn(t)
  \/ \E t \in TaskIds : T_Read(t)
  \/ \E t \in TaskIds : T_ProgressEdit(t)
  \/ \E t \in TaskIds : T_Wait(t)
  \/ \E t \in TaskIds : T_StderrRead(t)
  \/ \E t \in TaskIds : T_DlErrorEdit(t)
  \/ \E t \in TaskIds : T_CompleteEdit(t)
  \/ \E t \in TaskIds : T_Auth(t)
  \/ \E t \in TaskIds : T_AuthFailEdit(t)
  \/ \E t \in TaskIds : T_Chunk(t)
  \/ \E t \in TaskIds : T_UlProgressEdit(t)
  \/ \E t \in TaskIds : T_UlErrorEdit(t)
  \/ \E t \in TaskIds : T_SuccessEdit(t)
  \/ \E t \in TaskIds : T_ExceptEdit(t)
  \/ \E t \in TaskIds : ProcWrite(t)
  \/ \E t \in TaskIds : ProcCreateFile(t)
  \/ \E t \in TaskIds : ProcExit(t)
  \/ \E t \in TaskIds : CancelClick(t)
  \/ H_Pop
  \/ H_Wait
  \/ H_Edit

Spec == Init /\ [][Next]_vars

\* ---------------------------------------------------------------- phases
\* the await points of the download loop: the process is registered
DownloadPcs == {"read", "progress_edit", "wait"}

\* the await points inside upload_with_progress
UploadPcs == {"auth", "auth_fail_edit", "chunk", "ul_progress_edit", "ul_error_edit"}

\* the task has ended, by return or by exception
Ended(t) == pc[t] = "done"

\* no cancel callback for t is queued or being handled
CallbacksOver(t) ==
  /\ \A i \in 1..Len(updates) : updates[i] # t
  /\ cancel.pc # "idle" => cancel.task # t

\* ------------------------------------------------------------------ claims

\* C1: a task that has ended (Completed, Failed or Cancelled) has no registry
\* entry: its id is in neither active_processes nor progress_messages.
C1_EndedTaskNotRegistered ==
  \A t \in TaskIds :
    Ended(t) => /\ t \notin DOMAIN active_processes
                /\ t \notin DOMAIN progress_messages

\* C2: once a task has ended, by any path, its artifact file does not exist,
\* in every state from then on.
C2_EndedTaskHasNoFile ==
  \A t \in TaskIds : Ended(t) => OutputFilename(t) \notin files

\* C3: once a cancel has popped a task's entries, no retrieval process is
\* spawned for the task and no download loop is entered for it.
C3_NoSpawnAfterCancel ==
  [][ \A t \in TaskIds :
        cancelAt[t] # "never" =>
          /\ proc'[t] = "running" => proc[t] = "running"
          /\ pc'[t] = "read" => pc[t] \in DownloadPcs ]_vars

\* C4: a cancel handled while the task is downloading (its process is in
\* active_processes) terminates the process, the task ends Cancelled, the
\* file is absent once the task and the callback are over, and
\* upload_with_progress is never called.
C4_CancelDuringDownload ==
  \A t \in TaskIds :
    cancelAt[t] \in DownloadPcs =>
      /\ proc[t] = "exited"
      /\ uploaded_file[t] = "unset"
      /\ Ended(t) => outcome[t] = "Cancelled"
      /\ (Ended(t) /\ CallbacksOver(t)) => OutputFilename(t) \notin files

\* a task's own steps
TaskStep(t) ==
  \/ T_Start(t) \/ T_InitEdit(t) \/ T_Spawn(t) \/ T_Read(t) \/ T_ProgressEdit(t)
  \/ T_Wait(t) \/ T_StderrRead(t) \/ T_DlErrorEdit(t) \/ T_CompleteEdit(t)
  \/ T_Auth(t) \/ T_AuthFailEdit(t) \/ T_Chunk(t) \/ T_UlProgressEdit(t)
  \/ T_UlErrorEdit(t) \/ T_SuccessEdit(t) \/ T_ExceptEdit(t)

\* C5, the part that holds whatever the chunk in flight returns: once a
\* cancel was handled inside upload_with_progress no next_chunk is requested,
\* the task is never stuck, and it ends finalized (no registry entry).
C5_NoChunkAfterCancel ==
  [][ \A t \in TaskIds :
        cancelAt[t] \in UploadPcs => (pc'[t] = "chunk" => pc[t] = "chunk") ]_vars

C5_EndsFinalized ==
  \A t \in TaskIds :
    cancelAt[t] \in UploadPcs =>
      /\ ~Ended(t) => ENABLED TaskStep(t)
      /\ Ended(t) => /\ t \notin DOMAIN progress_messages
                     /\ t \notin DOMAIN active_processes

\* C5 as claimed: a cancel handled during the upload requests no further
\* chunk, the driver returns None and the task finalizes.
C5_UploadCancelReturnsNone ==
  /\ C5_NoChunkAfterCancel
  /\ [](C5_EndsFinalized /\
        \A t \in TaskIds :
          (cancelAt[t] \in UploadPcs /\ Ended(t)) => uploaded_file[t] = "None")

\* C5 as amended: the driver returns None unless the chunk in flight when the
\* cancel was handled returned the final response; then it returns that
\* response.
C5_UploadCancelAmended ==
  /\ C5_NoChunkAfterCancel
  /\ [](C5_EndsFinalized /\
        \A t \in TaskIds :
          (cancelAt[t] \in UploadPcs /\ Ended(t)) =>
             \/ uploaded_file[t] = "None"
             \/ uploaded_file[t] = "response" /\ cancelAt[t] = "chunk")

\* C5 witness: the cancel came with a chunk in flight, the chunk returned a
\* status and the next loop test returned None
C5_Witness ==
  \E t \in TaskIds :
    /\ cancelAt[t] = "chunk" /\ Ended(t)
    /\ chunks[t] = 1 /\ uploaded_file[t] = "None" /\ outcome[t] = "Cancelled"

\* C6: upload_with_progress is called only after the process exited with
\* code 0 and with no cancel handled before the call.
C6_UploadOnlyAfterSuccess ==
  \A t \in TaskIds :
    uploaded_file[t] # "unset" =>
      /\ proc[t] = "exited"
      /\ returncode[t] = 0
      /\ cancelAt[t] \notin {"init_edit", "spawn", "complete_edit"} \cup DownloadPcs

\* C7: a task resuming from an edit that was not delivered has nothing raised
\* into it and goes where the delivered edit would have taken it: to the
\* download after the 'starting' edit, to the upload after the 'download
\* complete' edit, to Completed after the success edit.
C7_EditFailureSwallowed ==
  [][ \A t \in TaskIds :
        (pc[t] \in TaskEditPcs /\ ~edit_ok[t] /\ pc'[t] # pc[t]) =>
          /\ exc'[t] = exc[t]
          /\ pc[t] = "init_edit" => pc'[t] = "spawn"
          /\ pc[t] = "complete_edit" => pc'[t] = "auth"
          /\ pc[t] = "success_edit" => outcome'[t] = "Completed" ]_vars

\* what the message may show at the end
FinalTexts ==
  {"success"} \cup
  {"dl_error", "auth_error", "upload_error", "unexpected_error"} \cup
  {"cancelled", "already_done", "no_active"}

\* C8: once the task has ended and no cancel callback is left, the message
\* (every edit of it having been delivered) shows the success message, a
\* failure reason or a reply to the cancel, never an intermediate text.
C8_FinalMessage ==
  \A t \in TaskIds :
    (Ended(t) /\ CallbacksOver(t) /\ ~editFailed[t]) => msg[t] \in FinalTexts

\* C9: a cancel handled after an earlier cancel of the same task finds no
\* entry, replies 'no active download', ends no process and deletes no file.
C9_RepeatedCancelIsNoop ==
  [][ (Len(updates') < Len(updates) /\ cancelAt[Head(updates)] # "never") =>
        /\ Head(updates) \notin DOMAIN active_processes
        /\ Head(updates) \notin DOMAIN progress_messages
        /\ cancel'.pc = "edit_none"
        /\ proc' = proc /\ files' = files ]_vars

\* C10: whatever frame a chunk carries, the read step goes on with the
\* download loop: it raises nothing.
C10_MalformedFrameTolerated ==
  [][ \A t \in TaskIds :
        pc[t] = "read" => (pc'[t] \in DownloadPcs /\ exc'[t] = "none") ]_vars

\* the state finalize leaves: no registry entry and no artifact file
Finalized(t) ==
  /\ t \notin DOMAIN progress_messages
  /\ t \notin DOMAIN active_processes
  /\ OutputFilename(t) \notin files

\* C12: when authenticate_drive returns no service the failure edit of line
\* 133 is called, no next_chunk is ever requested (the driver goes from that
\* edit to its return, at most through the error edit of line 185), it
\* returns None, and the task ends finalized: no registry entry, no file.
C12_AuthFailureFinalizes ==
  [][ \A t \in TaskIds :
        /\ (pc[t] = "auth" /\ pc'[t] = "auth_fail_edit") =>
             (edit_ok'[t] => msg'[t] = "auth_error")
        /\ (pc[t] \in {"auth_fail_edit", "ul_error_edit"} /\ pc'[t] # pc[t]) =>
             /\ pc'[t] \in {"ul_error_edit", "done"} \ {pc[t]}
             /\ chunks'[t] = chunks[t]
             /\ pc'[t] = "done" =>
                  /\ uploaded_file'[t] = "None"
                  /\ outcome'[t] = "Failed"
                  /\ Finalized(t)' ]_vars

\* C12 witness: the task ended after the authentication failure was shown
C12_Witness ==
  \E t \in TaskIds :
    /\ Ended(t) /\ msg[t] = "auth_error" /\ chunks[t] = 0
    /\ uploaded_file[t] = "None" /\ Finalized(t)

\* the read of line 220 returns a chunk: the buffer line 222 builds
ReadStep(t) == pc[t] = "read" /\ stdout'[t] # stdout[t]

BufferAfterRead(t) == buffer[t] \o Take(stdout[t], READ_LIMIT)

\* the frames (head and tail both arrived) of a text
CompleteFrames(s) == MatchPositions(s)

\* the frames re.search is applied to by lines 224-228: the leftmost one of
\* the last segment, when the buffer holds a carriage return
FramesParsed(s) ==
  IF HasCR(s) /\ Matches(LastSegment(s))
  THEN { (Len(s) - Len(LastSegment(s))) +
         (CHOOSE i \in MatchPositions(LastSegment(s)) :
            \A j \in MatchPositions(LastSegment(s)) : i <= j) }
  ELSE {}

\* C16: however the output is cut into chunks, every frame that is complete
\* in the buffer after a read is given to the progress parser by that read.
C16_EveryFrameParsed ==
  [][ \A t \in TaskIds :
        ReadStep(t) =>
          CompleteFrames(BufferAfterRead(t)) \subseteq FramesParsed(BufferAfterRead(t))
    ]_vars

\* the cancel callback's cleanup of t (lines 357-370) has run to its end
CancelCleanupDone(t) == cancelAt[t] \in DownloadPcs /\ CallbacksOver(t)

\* C17: cleanup run a second time changes nothing: the finally block after
\* the cancel callback's cleanup, and the cancel callback's pops and deletion
\* after the finally block, find no entry and no file.
C17_SecondCleanupIsNoop ==
  [][ /\ \A t \in TaskIds :
           (CancelCleanupDone(t) /\ ~Ended(t) /\ Ended(t)') =>
              /\ progress_messages' = progress_messages
              /\ files' = files
      /\ (Len(updates') < Len(updates) /\ Ended(Head(updates))) =>
              /\ active_processes' = active_processes
              /\ progress_messages' = progress_messages
              /\ proc' = proc
              /\ files' = files ]_vars

\* C19: a task that has ended has no running retrieval process.
C19_NoOrphanProcess ==
  \A t \in TaskIds : Ended(t) => proc[t] # "running"

\* ------------------------------------------- repeated quality selections
\* the operator clicks a quality button of the prompt once more; the callback
\* waits for its turn
QualityClick(t) ==
  /\ msg[t] = "prompt"
  /\ quality_clicks[t] < MaxQualityClicks
  /\ quality_clicks' = [quality_clicks EXCEPT ![t] = @ + 1]
  /\ UNCHANGED << commands, task_data, progress_messages, active_processes,
                  files, pc, file_name, buffer, last_update_pct, uploaded_file,
                  chunks, exc, outcome, proc, returncode, stdout, wrote, msg,
                  edit_ok, editFailed, clicks, updates, cancel, cancelAt,
                  percent_shown, status, last_uploaded_bytes, media_size,
                  bytes_monotone, started, stderr, err_left, arg, result >>

\* quality_selection_handler for a click whose entry was consumed (lines
\* 338-344): the pop returns None and the message is edited to 'expired'
quality_selection_expired(t) ==
  /\ cancel.pc = "idle"
  /\ quality_clicks[t] > 0
  /\ MessageId(t) \notin DOMAIN task_data
  /\ quality_clicks' = [quality_clicks EXCEPT ![t] = @ - 1]
  /\ task_data' = Pop(task_data, MessageId(t))
  /\ \E ok \in BOOLEAN : Edit(t, "expired", ok)
  /\ UNCHANGED << commands, progress_messages, active_processes, files, pc,
                  file_name, buffer, last_update_pct, uploaded_file, chunks,
                  exc, outcome, proc, returncode, stdout, wrote, edit_ok,
                  clicks, updates, cancel, cancelAt, status,
                  last_uploaded_bytes, media_size, bytes_monotone, started,
                  stderr, err_left, arg, result >>

\* the retrieval process's own steps
ProcStep(t) == ProcWrite(t) \/ ProcCreateFile(t) \/ ProcExit(t)

\* one task, quality buttons clicked any number of times, no cancel
NextQuality ==
  \/ \E t \in TaskIds : startmedia_command(t)
  \/ \E t \in TaskIds : QualityClick(t)
  \/ \E t \in TaskIds : quality_selection_handler(t)
  \/ \E t \in TaskIds : quality_selection_expired(t)
  \/ \E t \in TaskIds : TaskStep(t)
  \/ \E t \in TaskIds : ProcStep(t)

SpecQuality == Init /\ [][NextQuality]_vars

\* C14: whatever quality buttons are clicked and however often, at most one
\* download_and_upload_task is created per task id (so one process per task
\* at most), and a click handled after the entry was consumed starts
\* nothing, touches neither registry nor process, and shows 'expired'.
C14_OneExecutionPerTask ==
  /\ [](\A t \in TaskIds : started[t] <= 1)
  /\ [][ \A t \in TaskIds :
           quality_clicks'[t] < quality_clicks[t] =>
             /\ started' = started /\ pc' = pc /\ proc' = proc
             /\ active_processes' = active_processes
             /\ progress_messages' = progress_messages
             /\ msg'[t] = "expired" \/ (editFailed'[t] /\ msg'[t] = msg[t]) ]_vars

\* C14 witness: a second click was answered 'expired' while the one task the
\* first click created is downloading
C14_Witness ==
  \E t \in TaskIds :
    /\ started[t] = 1 /\ msg[t] = "expired"
    /\ proc[t] = "running" /\ t \in DOMAIN active_processes

\* ---------------------------------------------------------------- two tasks
\* two /startmedia commands, with the same name or with different ones
InitTwo ==
  /\ InitShared
  /\ commands = TaskIds
  /\ media_size = [t \in TaskIds |-> 1]
  /\ err_left = [t \in TaskIds |-> 0]
  /\ NoFunction

\* the steps of a task whose process writes no progress: line 240 is never
\* reached
TaskStepQuiet(t) ==
  \/ T_Start(t) \/ T_InitEdit(t) \/ T_Spawn(t) \/ T_Read(t)
  \/ T_Wait(t) \/ T_StderrRead(t) \/ T_DlErrorEdit(t) \/ T_CompleteEdit(t)
  \/ T_Auth(t) \/ T_AuthFailEdit(t) \/ T_Chunk(t) \/ T_UlProgressEdit(t)
  \/ T_UlErrorEdit(t) \/ T_SuccessEdit(t) \/ T_ExceptEdit(t)

\* both tasks and their cancel callbacks; the processes write no progress
NextTwo ==
  \/ \E t \in TaskIds : startmedia_command(t)
  \/ \E t \in TaskIds : quality_selection_handler(t)
  \/ \E t \in TaskIds : TaskStepQuiet(t)
  \/ \E t \in TaskIds : ProcCreateFile(t)
  \/ \E t \in TaskIds : ProcExit(t)
  \/ \E t \in TaskIds : CancelClick(t)
  \/ H_Pop
  \/ H_Wait
  \/ H_Edit

SpecTwo == InitTwo /\ [][NextTwo]_vars

\* the task is between the spawn of its process and its end
Transferring(t) == pc[t] \in DownloadPcs \cup {"complete_edit"} \cup UploadPcs

\* the step is one of task a or of a cancel callback for a
StepOf(a) ==
  \/ pc'[a] # pc[a]
  \/ Len(updates') < Len(updates) /\ Head(updates) = a
  \/ cancel.pc # "idle" /\ cancel.task = a /\ cancel' # cancel

\* C18: no step of a task A or of A's cancel callback deletes the file of
\* another task B that is downloading or uploading, or changes B's registry
\* entries, process or outcome.
C18_TaskIsolation ==
  [][ \A a, b \in TaskIds :
        (a # b /\ StepOf(a) /\ pc'[b] = pc[b] /\ Transferring(b)) =>
          /\ OutputFilename(b) \in files => OutputFilename(b) \in files'
          /\ (b \in DOMAIN active_processes) = (b \in DOMAIN active_processes')
          /\ (b \in DOMAIN progress_messages) = (b \in DOMAIN progress_messages')
          /\ proc'[b] = proc[b]
          /\ outcome'[b] = outcome[b] ]_vars

\* ------------------------------------------------------ the stderr pipe
\* The process was spawned with stderr=PIPE (line 209) and nothing reads that
\* pipe before line 271, so what the process writes to it stays in the pipe
\* and in the reader's buffer, which hold a bounded amount: a write blocks
\* while they are full.
ProcWriteErr(t) ==
  /\ proc[t] = "running"
  /\ err_left[t] > 0
  /\ stderr[t] < MaxStderr
  /\ stderr' = [stderr EXCEPT ![t] = @ + 1]
  /\ err_left' = [err_left EXCEPT ![t] = @ - 1]
  /\ UNCHANGED << taskVars, procVars, files, stdout >>

\* one task whose process has any amount to write to stderr before it exits
InitFair ==
  /\ InitShared
  /\ commands = {"t1"}
  /\ media_size = [t \in TaskIds |-> 1]
  /\ \E n \in 0..(MaxStderr + 1) :
       err_left = [t \in TaskIds |-> IF t = "t1" THEN n ELSE 0]
  /\ NoFunction

NextFair ==
  \/ \E t \in TaskIds : startmedia_command(t)
  \/ \E t \in TaskIds : quality_selection_handler(t)
  \/ \E t \in TaskIds : TaskStep(t)
  \/ \E t \in TaskIds : ProcStep(t)
  \/ \E t \in TaskIds : ProcWriteErr(t)

\* The event loop resumes every coroutine whose await has completed, and the
\* process goes on to write its stderr and to exit whenever it is not blocked.
SpecFair ==
  /\ InitFair
  /\ [][NextFair]_vars
  /\ \A t \in TaskIds : /\ WF_vars(TaskStep(t))
                        /\ WF_vars(ProcWriteErr(t))
                        /\ WF_vars(ProcExit(t))

\* C20: once the process is spawned, the download loop ends and the task
\* reaches its end, whatever amount the process writes to stderr.
C20_DownloadTerminates ==
  \A t \in TaskIds : (proc[t] = "running") ~> Ended(t)

\* ------------------------------------------------- upload progress numbers
\* elapsed_time, line 158: time.time() may stand still or go back
Elapsed == {-1, 0, 1, 2}

\* the values lines 157-162 start from: a status, the size of the file, the
\* bytes of the status before, the time since then
InitArith ==
  /\ InitShared
  /\ commands = {}
  /\ media_size = [t \in TaskIds |-> 1]
  /\ err_left = [t \in TaskIds |-> 0]
  /\ result = <<>>
  /\ \E total \in 1..MaxTotal : \E done \in 0..total :
       \E previous \in {0, done} : \E elapsed \in Elapsed :
         arg = << [resumable_progress |-> done, size |-> total,
                   last_uploaded_bytes |-> previous,
                   elapsed_time |-> elapsed] >>

\* lines 157-162: speed and percentage of a status
ComputeUploadProgress ==
  /\ result = <<>>
  /\ LET a == arg[1] IN
       result' = << [percentage |-> UploadPercentage(a.resumable_progress, a.size),
                     speed |-> UploadSpeed(a.resumable_progress - a.last_uploaded_bytes,
                                           a.elapsed_time)] >>
  /\ UNCHANGED << commands, task_data, progress_messages, active_processes,
                  files, pc, file_name, buffer, last_update_pct, uploaded_file,
                  chunks, exc, outcome, proc, returncode, stdout, wrote, msg,
                  edit_ok, editFailed, clicks, updates, cancel, cancelAt,
                  percent_shown, status, last_uploaded_bytes, media_size,
                  bytes_monotone, quality_clicks, started, stderr, err_left,
                  arg >>

SpecArith == InitArith /\ [][ComputeUploadProgress]_vars

\* C13: for 0 <= previous <= bytesDone <= bytesTotal and bytesTotal > 0 the
\* percent is floor(bytesDone * 100 / bytesTotal) and lies in 0..100, and the
\* rate is (bytesDone - previous) / elapsed for elapsed > 0 and 0 otherwise.
C13_UploadArithmetic ==
  result # <<>> =>
    LET a == arg[1]
        r == result[1]
    IN  /\ r.percentage = (a.resumable_progress * 100) \div a.size
        /\ r.percentage \in 0..100
        /\ a.elapsed_time > 0 =>
             r.speed.num * a.elapsed_time =
               (a.resumable_progress - a.last_uploaded_bytes) * r.speed.den
        /\ a.elapsed_time <= 0 => r.speed.num = 0

\* ------------------------------------------------ download failure reason
\* A text is a sequence of characters: 0 is white space, -1 a byte that is
\* not valid UTF-8, any other number some other character.

\* bytes.decode('utf-8', 'ignore')
Decode(bytes) == SelectSeq(bytes, LAMBDA c : c # -1)

\* str.strip()
Strip(text) ==
  LET inked == { i \in 1..Len(text) : text[i] # 0 }
  IN  IF inked = {} THEN <<>>
      ELSE SubSeq(text, CHOOSE i \in inked : \A j \in inked : i <= j,
                        CHOOSE i \in inked : \A j \in inked : j <= i)

\* stderr_text of line 271
StderrText(raw) == Strip(Decode(raw))

\* what line 273 shows of it: stderr_text[:1000]
DlErrorReason(stderr_text) == Take(stderr_text, REASON_LIMIT)

\* the last n characters of a text, all of it when it has no more
LastUpTo(text, n) ==
  SubSeq(text, (IF Len(text) < n THEN 0 ELSE Len(text) - n) + 1, Len(text))

\* the characters 1..n, each different from the others
Numbered(n) == [i \in 1..n |-> i]

\* what the process has written to stderr: any length, possibly within white
\* space, possibly with an invalid byte
InitReason ==
  /\ InitShared
  /\ commands = {}
  /\ media_size = [t \in TaskIds |-> 1]
  /\ err_left = [t \in TaskIds |-> 0]
  /\ result = <<>>
  /\ \E n \in 0..MaxStderrLen :
       \E raw \in { Numbered(n), <<0>> \o Numbered(n) \o <<0>>,
                    <<-1>> \o Numbered(n) } :
         arg = << raw >>

\* lines 271-273: the reason shown for a failed download
ReportDownloadError ==
  /\ result = <<>>
  /\ result' = << DlErrorReason(StderrText(arg[1])) >>
  /\ UNCHANGED << commands, task_data, progress_messages, active_processes,
                  files, pc, file_name, buffer, last_update_pct, uploaded_file,
                  chunks, exc, outcome, proc, returncode, stdout, wrote, msg,
                  edit_ok, editFailed, clicks, updates, cancel, cancelAt,
                  percent_shown, status, last_uploaded_bytes, media_size,
                  bytes_monotone, quality_clicks, started, stderr, err_left,
                  arg >>

SpecReason == InitReason /\ [][ReportDownloadError]_vars

\* C15: the reason shown for a failed download is the last (up to) 1000
\* characters of the process's standard error, whatever its length.
C15_ReasonIsStderrTail ==
  result # <<>> => result[1] = LastUpTo(StderrText(arg[1]), REASON_LIMIT)

\* ------------------------------------------------ the upload, status by status
\* what an upload step leaves alone besides the upload's own numbers
uploadEnv == << commands, task_data, file_name, returncode, wrote, clicks,
                updates, cancel, cancelAt, started, errVars, quality_clicks,
                arg, result >>

\* line 131 resumes as in T_Auth; lines 137 and 145 take the size of the file
\* and set last_uploaded_bytes
U_Auth(t) ==
  /\ pc[t] = "auth"
  /\ \E r \in {"service", "None", "raise"} :
       CASE r = "service" ->
              IF OutputFilename(t) \in files
              THEN /\ UploadLoop(t)
                   /\ \E size \in 0..MaxSize :
                        media_size' = [media_size EXCEPT ![t] = size]
                   /\ last_uploaded_bytes' = [last_uploaded_bytes EXCEPT ![t] = 0]
              ELSE /\ UploadExcept(t)
                   /\ UNCHANGED << media_size, last_uploaded_bytes >>
         [] r = "None"    -> /\ Goto(t, "auth_fail_edit")
                             /\ UNCHANGED << uploaded_file, media_size,
                                             last_uploaded_bytes >>
         [] r = "raise"   -> /\ UploadExcept(t)
                             /\ UNCHANGED << media_size, last_uploaded_bytes >>
  /\ NoExcept
  /\ UNCHANGED << uploadEnv, status, bytes_monotone, active_processes, buffer,
                  last_update_pct, chunks, proc, stdout >>

\* line 154 resumes as in T_Chunk; a status carries resumable_progress, and
\* lines 157-172 compute the numbers of the progress text: the percentage
\* divides by the size, human_readable_size(speed) takes the logarithm of the
\* speed
U_Chunk(t) ==
  /\ pc[t] = "chunk"
  /\ \E r \in {"status", "response", "raise"} :
       CASE r = "status"   ->
              /\ chunks[t] < MaxStatuses
              /\ chunks' = [chunks EXCEPT ![t] = @ + 1]
              /\ \E resumable_progress \in 0..media_size[t] :
                   \E elapsed_time \in Elapsed :
                     /\ status' = [status EXCEPT ![t] = resumable_progress]
                     /\ bytes_monotone' =
                          [bytes_monotone EXCEPT
                             ![t] = @ /\ resumable_progress >= last_uploaded_bytes[t]]
                     /\ IF \/ media_size[t] = 0
                           \/ UploadSpeed(resumable_progress - last_uploaded_bytes[t],
                                          elapsed_time).num < 0
                        THEN UploadExcept(t)
                        ELSE /\ GotoBar(t, "ul_progress_edit",
                                        UploadPercentage(resumable_progress,
                                                         media_size[t]))
                             /\ UNCHANGED uploaded_file
         [] r = "response" -> /\ UploadReturnsResponse(t)
                              /\ UNCHANGED << chunks, status, bytes_monotone >>
         [] r = "raise"    -> /\ UploadExcept(t)
                              /\ UNCHANGED << chunks, status, bytes_monotone >>
  /\ NoExcept
  /\ UNCHANGED << uploadEnv, media_size, last_uploaded_bytes, active_processes,
                  buffer, last_update_pct, proc, stdout >>

\* line 172 resumes as in T_UlProgressEdit; line 176 keeps the bytes of the
\* status
U_ProgressEdit(t) ==
  /\ pc[t] = "ul_progress_edit"
  /\ last_uploaded_bytes' = [last_uploaded_bytes EXCEPT ![t] = status[t]]
  /\ UploadLoop(t)
  /\ NoExcept
  /\ UNCHANGED << uploadEnv, status, media_size, bytes_monotone,
                  active_processes, buffer, last_update_pct, chunks, proc,
                  stdout >>

\* a task's own steps, the upload status by status
TaskStepProgress(t) ==
  \/ T_Start(t) \/ T_InitEdit(t) \/ T_Spawn(t) \/ T_Read(t) \/ T_ProgressEdit(t)
  \/ T_Wait(t) \/ T_StderrRead(t) \/ T_DlErrorEdit(t) \/ T_CompleteEdit(t)
  \/ U_Auth(t) \/ T_AuthFailEdit(t) \/ U_Chunk(t) \/ U_ProgressEdit(t)
  \/ T_UlErrorEdit(t) \/ T_SuccessEdit(t) \/ T_ExceptEdit(t)

\* one task, no cancel
NextProgress ==
  \/ \E t \in TaskIds : startmedia_command(t)
  \/ \E t \in TaskIds : quality_selection_handler(t)
  \/ \E t \in TaskIds : TaskStepProgress(t)
  \/ \E t \in TaskIds : ProcStep(t)

SpecProgress == Init /\ [][NextProgress]_vars

\* a download progress update is delivered to t's message
DownloadDelivery(t) ==
  pc[t] = "read" /\ pc'[t] = "progress_edit" /\ edit_ok'[t]

\* an upload progress update is delivered to t's message
UploadDelivery(t) ==
  pc[t] = "chunk" /\ pc'[t] = "ul_progress_edit" /\ edit_ok'[t]

\* C11: within the download of a task every progress update delivered to the
\* message shows a whole percent above the one shown before, whatever frames
\* the process writes; within the upload a delivered update shows a percent
\* not below the one shown before, as long as the bytes the statuses report
\* never decrease.
C11_PercentMonotone ==
  [][\A t \in TaskIds :
       /\ DownloadDelivery(t) => percent_shown'[t] > percent_shown[t]
       /\ UploadDelivery(t) /\ bytes_monotone'[t] =>
            percent_shown'[t] >= percent_shown[t]]_vars

\* a second upload update is delivered after non-decreasing statuses, in a
\* task whose download updated the message as well
C11_Witness ==
  \E t \in TaskIds :
    /\ pc[t] = "ul_progress_edit" /\ edit_ok[t]
    /\ chunks[t] = 2
    /\ bytes_monotone[t]
    /\ percent_shown[t] > 0
    /\ last_update_pct[t] > 0

====
